---------------------------- MODULE Spec2Model ----------------------------
(***************************************************************************)
(* Flash flood dashboard (src/app3.py, src/app4.py).  Both scripts run the *)
(* same module-level pipeline: load the CSV, derive columns, take three    *)
(* sub-dataframes, add BEGIN_HOUR, build the figures.  The pipeline is a   *)
(* straight-line program; pc is the position in it.                        *)
(*                                                                         *)
(* A dataframe is a sequence of rows; a row is a function from column name *)
(* to cell.  A cell is [kind, v] with v a sequence of integers:            *)
(*   "str"   v = the code points of the text                               *)
(*   "int"   v = <<n>>                                                     *)
(*   "float" v = <<m, k>>, the number m / 10^k with k minimal              *)
(*   "inf"   v = <<sign>>                                                  *)
(*   "nan"   v = <<>>      (numpy nan, the absent value)                   *)
(*   "ts"    v = <<year, month, day>>   (a pandas Timestamp at midnight)   *)
(*   "nat"   v = <<>>      (pandas NaT, the absent timestamp)              *)
(***************************************************************************)
EXTENDS Integers, Sequences, FiniteSets, TLC

VARIABLES pc, err, raw, df, geo_df, damage_df, impact_df,
          annual_counts, monthly_counts, top_locations, cumulative,
          deaths, injuries, hist_hours, location_damage, damage_by_year,
          figs, bound, arg, ret

vars == <<pc, err, raw, df, geo_df, damage_df, impact_df,
          annual_counts, monthly_counts, top_locations, cumulative,
          deaths, injuries, hist_hours, location_damage, damage_by_year,
          figs, bound, arg, ret>>

pipeVars == <<err, raw, df, geo_df, damage_df, impact_df,
              annual_counts, monthly_counts, top_locations, cumulative,
              deaths, injuries, hist_hours, location_damage, damage_by_year,
              figs, bound>>

(***************************************************************************)
(* Bounds of the model.                                                    *)
(***************************************************************************)
MaxTimeLen == 5
MaxCoordLen == 4
MaxDerive == 1
MaxFree == 3

\* head(10), nlargest(10)
TopN == 10

(***************************************************************************)
(* Cells.                                                                  *)
(***************************************************************************)
NaN == [kind |-> "nan", v |-> <<>>]
NaT == [kind |-> "nat", v |-> <<>>]
StrCell(s) == [kind |-> "str", v |-> s]
IntCell(n) == [kind |-> "int", v |-> <<n>>]
FloatCell(m, k) == [kind |-> "float", v |-> <<m, k>>]
Timestamp(y, m, d) == [kind |-> "ts", v |-> <<y, m, d>>]

\* pd.isna / dropna: nan and NaT are the absent values.
pd_isna(c) == c.kind \in {"nan", "nat"}

IsDigit(c) == c \in 48..57
IsSpace(c) == c \in {32} \cup (9..13)

RECURSIVE IntDigits(_)
IntDigits(n) ==
    IF n < 10 THEN <<48 + n>> ELSE IntDigits(n \div 10) \o <<48 + (n % 10)>>

RECURSIVE Pow10(_)
Pow10(k) == IF k = 0 THEN 1 ELSE 10 * Pow10(k - 1)

RECURSIVE PadLeft(_, _)
PadLeft(s, n) == IF Len(s) >= n THEN s ELSE PadLeft(<<48>> \o s, n)

Abs(n) == IF n < 0 THEN -n ELSE n

\* str(x) of a cell of a BEGIN_TIME or coordinate column.
PyStr(c) ==
    CASE c.kind = "str" -> c.v
      [] c.kind = "int" ->
            (IF c.v[1] < 0 THEN <<45>> ELSE <<>>) \o IntDigits(Abs(c.v[1]))
      [] c.kind = "float" ->
            LET m == c.v[1]
                k == c.v[2]
                whole == Abs(m) \div Pow10(k)
                frac == Abs(m) % Pow10(k)
            IN  (IF m < 0 THEN <<45>> ELSE <<>>) \o IntDigits(whole) \o <<46>>
                \o (IF k = 0 THEN <<48>> ELSE PadLeft(IntDigits(frac), k))
      [] c.kind = "inf" ->
            (IF c.v[1] < 0 THEN <<45>> ELSE <<>>) \o <<105, 110, 102>>
      [] c.kind = "nan" -> <<110, 97, 110>>
      [] OTHER -> <<78, 97, 84>>

\* int(s) of a string of ASCII digits.
RECURSIVE PyInt(_)
PyInt(s) ==
    IF s = <<>> THEN 0 ELSE 10 * PyInt(SubSeq(s, 1, Len(s) - 1)) + (s[Len(s)] - 48)

\* re.sub(r'\D', '', s): every character that is not a digit is dropped.
RECURSIVE re_sub_nondigits(_)
re_sub_nondigits(s) ==
    IF s = <<>> THEN <<>>
    ELSE (IF IsDigit(Head(s)) THEN <<Head(s)>> ELSE <<>>)
         \o re_sub_nondigits(Tail(s))

convert_to_hour_two_digits(time_str) ==
    LET s == re_sub_nondigits(PyStr(time_str))
    IN  IF Len(s) = 3 THEN IntCell(PyInt(SubSeq(s, 1, 2)))
        ELSE IF Len(s) = 4 THEN IntCell(PyInt(SubSeq(s, 1, 2)))
        ELSE NaN

convert_to_hour(time_str) ==
    LET s == re_sub_nondigits(PyStr(time_str))
    IN  IF Len(s) = 3 THEN IntCell(PyInt(SubSeq(s, 1, 1)))
        ELSE IF Len(s) = 4 THEN IntCell(PyInt(SubSeq(s, 1, 2)))
        ELSE NaN

\* s.split(' '): the tokens between single spaces, empty tokens kept.
RECURSIVE split_space(_, _)
split_space(s, cur) ==
    IF s = <<>> THEN <<cur>>
    ELSE IF Head(s) = 32 THEN <<cur>> \o split_space(Tail(s), <<>>)
    ELSE split_space(Tail(s), Append(cur, Head(s)))

RECURSIVE StripLeft(_)
StripLeft(s) ==
    IF s # <<>> /\ IsSpace(Head(s)) THEN StripLeft(Tail(s)) ELSE s

RECURSIVE StripRight(_)
StripRight(s) ==
    IF s # <<>> /\ IsSpace(s[Len(s)]) THEN StripRight(SubSeq(s, 1, Len(s) - 1))
    ELSE s

RECURSIVE Normalize(_, _)
Normalize(m, k) ==
    IF k > 0 /\ m % 10 = 0 THEN Normalize(m \div 10, k - 1) ELSE FloatCell(m, k)

Lower(s) == [i \in 1..Len(s) |-> IF s[i] \in 65..90 THEN s[i] + 32 ELSE s[i]]

\* float(s) of a text: surrounding whitespace is stripped, then an optional
\* sign and either nan / inf / infinity or decimal digits with at most one
\* point and at least one digit.  [ok |-> FALSE] is ValueError.  Exponents
\* and digit-group underscores are outside the alphabets used here.
PyFloat(s) ==
    LET t == StripRight(StripLeft(s))
        signed == t # <<>> /\ t[1] \in {43, 45}
        sign == IF signed /\ t[1] = 45 THEN -1 ELSE 1
        body == IF signed THEN Tail(t) ELSE t
        dots == {i \in 1..Len(body) : body[i] = 46}
        digits == re_sub_nondigits(body)
        k == IF dots = {} THEN 0 ELSE Len(body) - (CHOOSE i \in dots : TRUE)
    IN  IF Lower(body) = <<110, 97, 110>> THEN [ok |-> TRUE, val |-> NaN]
        ELSE IF Lower(body) \in {<<105, 110, 102>>,
                                 <<105, 110, 102, 105, 110, 105, 116, 121>>}
        THEN [ok |-> TRUE, val |-> [kind |-> "inf", v |-> <<sign>>]]
        ELSE IF /\ Cardinality(dots) <= 1
                /\ digits # <<>>
                /\ \A i \in 1..Len(body) : IsDigit(body[i]) \/ body[i] = 46
        THEN [ok |-> TRUE,
              val |-> Normalize(sign * PyInt(digits), k)]
        ELSE [ok |-> FALSE, val |-> NaN]

\* float(x) of a cell: a number is itself as a float, a text is parsed.
PyFloatOf(c) ==
    CASE c.kind = "str" -> PyFloat(c.v)
      [] c.kind = "int" -> [ok |-> TRUE, val |-> FloatCell(c.v[1], 0)]
      [] c.kind \in {"float", "inf", "nan"} -> [ok |-> TRUE, val |-> c]
      [] OTHER -> [ok |-> FALSE, val |-> NaN]

clean_coordinates_last_token(coord) ==
    IF pd_isna(coord) THEN NaN
    ELSE LET t == PyStr(coord)
             toks == split_space(t, <<>>)
             r == IF \E i \in 1..Len(t) : t[i] = 32
                  THEN PyFloat(toks[Len(toks)])
                  ELSE PyFloatOf(coord)
         IN  IF r.ok THEN r.val ELSE NaN

clean_coordinates(coord) ==
    IF pd_isna(coord) THEN NaN
    ELSE LET t == PyStr(coord)
             r == IF \E i \in 1..Len(t) : t[i] = 32
                  THEN PyFloat(split_space(t, <<>>)[1])
                  ELSE PyFloatOf(coord)
         IN  IF r.ok THEN r.val ELSE NaN


(***************************************************************************)
(* Timestamps.                                                             *)
(***************************************************************************)
IsLeap(y) == (y % 4 = 0 /\ y % 100 # 0) \/ y % 400 = 0

DaysInMonth(y, m) ==
    CASE m \in {4, 6, 9, 11} -> 30
      [] m = 2 -> (IF IsLeap(y) THEN 29 ELSE 28)
      [] OTHER -> 31

\* The day number of a calendar date (proleptic Gregorian).
DayNumber(y, m, d) ==
    LET a == (14 - m) \div 12
        yy == y + 4800 - a
        mm == m + 12 * a - 3
    IN  d + ((153 * mm + 2) \div 5) + 365 * yy + (yy \div 4) - (yy \div 100)
          + (yy \div 400) - 32045

\* pd.to_datetime of one cell under errors='raise': an empty cell is NaT, an
\* ISO text YYYY-MM-DD naming a calendar day is its Timestamp, and a text
\* that names no date raises.  The inputs used here are ISO texts, ISO-shaped
\* texts with an impossible day, and a word.
to_datetime(c) ==
    IF pd_isna(c) THEN [ok |-> TRUE, val |-> NaT]
    ELSE IF c.kind = "ts" THEN [ok |-> TRUE, val |-> c]
    ELSE LET t == PyStr(c)
             shaped == /\ Len(t) = 10
                       /\ t[5] = 45 /\ t[8] = 45
                       /\ \A i \in {1, 2, 3, 4, 6, 7, 9, 10} : IsDigit(t[i])
             y == PyInt(SubSeq(t, 1, 4))
             m == PyInt(SubSeq(t, 6, 7))
             d == PyInt(SubSeq(t, 9, 10))
         IN  IF shaped /\ m \in 1..12 /\ d \in 1..DaysInMonth(y, m)
             THEN [ok |-> TRUE, val |-> Timestamp(y, m, d)]
             ELSE [ok |-> FALSE, val |-> NaT]

\* (end - begin).dt.total_seconds() / 3600: hours as a float, nan when either
\* timestamp is NaT; a negative difference is kept.
duration_hours(b, e) ==
    IF pd_isna(b) \/ pd_isna(e) THEN NaN
    ELSE FloatCell(24 * (DayNumber(e.v[1], e.v[2], e.v[3])
                         - DayNumber(b.v[1], b.v[2], b.v[3])), 0)

\* calendar.month_abbr[1..12]
month_abbr ==
    <<  <<74, 97, 110>>, <<70, 101, 98>>, <<77, 97, 114>>, <<65, 112, 114>>,
        <<77, 97, 121>>, <<74, 117, 110>>, <<74, 117, 108>>, <<65, 117, 103>>,
        <<83, 101, 112>>, <<79, 99, 116>>, <<78, 111, 118>>, <<68, 101, 99>>  >>

(***************************************************************************)
(* Dataframes.                                                             *)
(***************************************************************************)
WithCol(row, c, val) ==
    [x \in (DOMAIN row) \cup {c} |-> IF x = c THEN val ELSE row[x]]

\* df[c] = values: the column is added to, or replaced in, every row.
SetCol(frame, c, values) ==
    [i \in 1..Len(frame) |-> WithCol(frame[i], c, values[i])]

Column(frame, c) == [i \in 1..Len(frame) |-> frame[i][c]]


\* series > 0 on a numeric cell; a comparison with nan is False.
Positive(c) == c.kind \in {"int", "float"} /\ c.v[1] > 0

NumberOf(c) == IF c.kind \in {"int", "float"} /\ (c.kind = "int" \/ c.v[2] = 0)
               THEN c.v[1] ELSE 0

RECURSIVE LexLess(_, _)
LexLess(a, b) ==
    IF b = <<>> THEN FALSE
    ELSE IF a = <<>> THEN TRUE
    ELSE IF Head(a) # Head(b) THEN Head(a) < Head(b)
    ELSE LexLess(Tail(a), Tail(b))

\* The order of group keys: years by value, Timestamps by date, labels as
\* Python compares str (by code point).
CellLess(a, b) == LexLess(a.v, b.v)

\* The distinct present cells of a sequence, in order of first appearance.
RECURSIVE FirstAppearance(_)
FirstAppearance(cells) ==
    IF cells = <<>> THEN <<>>
    ELSE LET rest == FirstAppearance(SubSeq(cells, 1, Len(cells) - 1))
             c == cells[Len(cells)]
         IN  IF pd_isna(c) \/ \E i \in 1..Len(rest) : rest[i] = c
             THEN rest ELSE Append(rest, c)

\* The distinct present cells of a sequence in ascending key order.
RECURSIVE SortKeys(_)
SortKeys(S) ==
    IF S = {} THEN <<>>
    ELSE LET m == CHOOSE x \in S : \A y \in S \ {x} : CellLess(x, y)
         IN  <<m>> \o SortKeys(S \ {m})

PresentKeys(cells) == {cells[i] : i \in {j \in 1..Len(cells) : ~pd_isna(cells[j])}}

CountOf(cells, k) == Cardinality({i \in 1..Len(cells) : cells[i] = k})

RECURSIVE SumWhere(_, _, _, _)
SumWhere(frame, keycol, k, valcol) ==
    IF frame = <<>> THEN 0
    ELSE (IF Head(frame)[keycol] = k THEN NumberOf(Head(frame)[valcol]) ELSE 0)
         + SumWhere(Tail(frame), keycol, k, valcol)

\* frame.groupby(keycol).size(): one entry per present key, keys ascending.
groupby_size(frame, keycol) ==
    LET cells == Column(frame, keycol)
        keys == SortKeys(PresentKeys(cells))
    IN  [i \in 1..Len(keys) |-> [key |-> keys[i], value |-> CountOf(cells, keys[i])]]

\* frame.groupby(keycol)[valcol].sum(): one entry per present key, ascending.
groupby_sum(frame, keycol, valcol) ==
    LET keys == SortKeys(PresentKeys(Column(frame, keycol)))
    IN  [i \in 1..Len(keys) |->
            [key |-> keys[i], value |-> SumWhere(frame, keycol, keys[i], valcol)]]

cumsum_missing(series) == series

RECURSIVE cumsum(_)
cumsum(series) ==
    IF series = <<>> THEN <<>>
    ELSE LET prev == cumsum(SubSeq(series, 1, Len(series) - 1))
             last == series[Len(series)]
         IN  Append(prev, [key |-> last.key,
                           value |-> last.value
                                     + (IF prev = <<>> THEN 0 ELSE prev[Len(prev)].value)])

Remove(series, i) == SubSeq(series, 1, i - 1) \o SubSeq(series, i + 1, Len(series))

\* A descending sort by value.  stable: entries of equal value keep their
\* order in series; otherwise they come out reversed.
RECURSIVE SortDescending(_, _)
SortDescending(series, stable) ==
    IF series = <<>> THEN <<>>
    ELSE LET top == {i \in 1..Len(series) :
                        \A j \in 1..Len(series) : series[j].value <= series[i].value}
             pick == IF stable
                     THEN CHOOSE i \in top : \A j \in top : i <= j
                     ELSE CHOOSE i \in top : \A j \in top : i >= j
         IN  <<series[pick]>> \o SortDescending(Remove(series, pick), stable)

\* Series.sort_values(ascending=False) with the default kind='quicksort',
\* which is not a stable sort: the order of entries of equal value is not
\* fixed by pandas.  stable selects between the two extreme outcomes.
sort_values_descending(series, stable) == SortDescending(series, stable)

head(series, n) == SubSeq(series, 1, IF n < Len(series) THEN n ELSE Len(series))

\* Series.value_counts(): the count of each present value, keys gathered in
\* order of first appearance and then sorted by count, descending.
value_counts(cells, stable) ==
    LET keys == FirstAppearance(cells)
    IN  sort_values_descending(
            [i \in 1..Len(keys) |-> [key |-> keys[i], value |-> CountOf(cells, keys[i])]],
            stable)

nlargest_keep_last(series, n, stable) ==
    IF n >= Len(series) THEN head(sort_values_descending(series, stable), n)
    ELSE head(SortDescending(series, FALSE), n)

\* Series.nlargest(n) with keep='first': when n covers the whole series it is
\* sort_values(ascending=False).head(n); otherwise the n largest are taken
\* with a stable sort, so entries of equal value keep their series order and
\* the earlier ones are kept.
nlargest(series, n, stable) ==
    IF n >= Len(series) THEN head(sort_values_descending(series, stable), n)
    ELSE head(SortDescending(series, TRUE), n)

\* Series.sort_index(): the entries in ascending key order.
sort_index(series) ==
    LET keys == SortKeys({series[i].key : i \in 1..Len(series)})
    IN  [i \in 1..Len(keys) |->
            series[CHOOSE j \in 1..Len(series) : series[j].key = keys[i]]]

\* DataFrame.sort_values(col): the rows by ascending key, rows with an absent
\* key last.  Rows of equal key are taken in input order.
RECURSIVE sort_values_frame(_, _)
sort_values_frame(frame, col) ==
    IF frame = <<>> THEN <<>>
    ELSE LET Before(a, b) ==
                 \/ ~pd_isna(a[col]) /\ pd_isna(b[col])
                 \/ ~pd_isna(a[col]) /\ ~pd_isna(b[col]) /\ CellLess(a[col], b[col])
             least == {i \in 1..Len(frame) :
                          \A j \in 1..Len(frame) : ~Before(frame[j], frame[i])}
             pick == CHOOSE i \in least : \A j \in least : i <= j
         IN  <<frame[pick]>> \o sort_values_frame(Remove(frame, pick), col)

\* Series.reindex(keys): the entry of each key, nan for a key the series
\* does not have; an integer series that gets a nan becomes float64.
reindex(series, keys) ==
    [i \in 1..Len(keys) |->
        IF \E j \in 1..Len(series) : series[j].key = keys[i]
        THEN LET j == CHOOSE j \in 1..Len(series) : series[j].key = keys[i]
                 holes == \E h \in 1..Len(keys) :
                              \A g \in 1..Len(series) : series[g].key # keys[h]
             IN  [key |-> keys[i],
                  value |-> IF holes THEN FloatCell(series[j].value, 0)
                            ELSE IntCell(series[j].value)]
        ELSE [key |-> keys[i], value |-> NaN]]

(***************************************************************************)
(* Inputs of the two cleaning functions.                                   *)
(***************************************************************************)
\* All texts over alphabet of length at most n.
StringsUpTo(alphabet, n) ==
    UNION {[1..m -> alphabet] : m \in 0..n}

\* '0' '3' '9' ':'
TimeAlphabet == {48, 51, 57, 58}
\* "930" "0930" "1730" "93" "12345" "17:30" "2530"
TimeExamples ==
    {<<57, 51, 48>>, <<48, 57, 51, 48>>, <<49, 55, 51, 48>>, <<57, 51>>,
     <<49, 50, 51, 52, 53>>, <<49, 55, 58, 51, 48>>, <<50, 53, 51, 48>>}
\* A BEGIN_TIME column read as text, as int64, or as float64 (when a cell of
\* the column is empty).
TimeInputs ==
    {StrCell(s) : s \in StringsUpTo(TimeAlphabet, MaxTimeLen) \cup TimeExamples}
    \cup {IntCell(n) : n \in {5, 30, 930, 1730, 2359}}
    \cup {FloatCell(n, 0) : n \in {30, 930, 1730}}
    \cup {NaN}

\* '3' '5' '.' ' ' '-' 'N'
CoordAlphabet == {51, 53, 46, 32, 45, 78}
\* "36.5 N" "N 36.5" "-86.80 W" "36.5" "nan" "36.5\t" "3 5 N"
CoordExamples ==
    {<<51, 54, 46, 53, 32, 78>>, <<78, 32, 51, 54, 46, 53>>,
     <<45, 56, 54, 46, 56, 48, 32, 87>>, <<51, 54, 46, 53>>,
     <<110, 97, 110>>, <<51, 54, 46, 53, 9>>, <<51, 32, 53, 32, 78>>}
CoordInputs ==
    {StrCell(s) : s \in StringsUpTo(CoordAlphabet, MaxCoordLen) \cup CoordExamples}
    \cup {FloatCell(365, 1), FloatCell(-868, 1), FloatCell(5, 2), FloatCell(36, 0)}
    \cup {IntCell(36), NaN}

Empty == <<>>
NoFigs == [f \in {} |-> "none"]

\* The pipeline's state while a cleaning function is exercised on its own.
PipelineIdle ==
    /\ err = "none"
    /\ raw = Empty /\ df = Empty
    /\ geo_df = Empty /\ damage_df = Empty /\ impact_df = Empty
    /\ annual_counts = Empty /\ monthly_counts = Empty
    /\ top_locations = Empty /\ cumulative = Empty
    /\ deaths = Empty /\ injuries = Empty /\ hist_hours = Empty
    /\ location_damage = Empty /\ damage_by_year = Empty
    /\ figs = NoFigs /\ bound = {}

InitHour ==
    /\ pc = "call"
    /\ arg \in TimeInputs
    /\ ret = NaN
    /\ PipelineIdle

Apply_convert_to_hour ==
    /\ pc = "call"
    /\ ret' = convert_to_hour(arg)
    /\ pc' = "return"
    /\ UNCHANGED <<arg, pipeVars>>

SpecHour == InitHour /\ [][Apply_convert_to_hour]_vars

InitCoord ==
    /\ pc = "call"
    /\ arg \in CoordInputs
    /\ ret = NaN
    /\ PipelineIdle

Apply_clean_coordinates ==
    /\ pc = "call"
    /\ ret' = clean_coordinates(arg)
    /\ pc' = "return"
    /\ UNCHANGED <<arg, pipeVars>>

SpecCoord == InitCoord /\ [][Apply_clean_coordinates]_vars


(***************************************************************************)
(* The input batch: what pd.read_csv loaded.                               *)
(***************************************************************************)
Row(bd, ed, lat, lon, tm, loc, dmg, dth, inj) ==
    [BEGIN_DATE |-> bd, END_DATE |-> ed, BEGIN_LAT |-> lat, BEGIN_LON |-> lon,
     BEGIN_TIME |-> tm, BEGIN_LOCATION |-> loc, DAMAGE_PROPERTY_NUM |-> dmg,
     DEATHS_DIRECT |-> dth, INJURIES_DIRECT |-> inj]

SourceColumns ==
    {"BEGIN_DATE", "END_DATE", "BEGIN_LAT", "BEGIN_LON", "BEGIN_TIME",
     "BEGIN_LOCATION", "DAMAGE_PROPERTY_NUM", "DEATHS_DIRECT", "INJURIES_DIRECT"}

\* "2020-01-01" "2020-01-02" "2020-01-03" "2021-07-15" "2020-02-31" "n/a"
Date_2020_01_01 == StrCell(<<50, 48, 50, 48, 45, 48, 49, 45, 48, 49>>)
Date_2020_01_02 == StrCell(<<50, 48, 50, 48, 45, 48, 49, 45, 48, 50>>)
Date_2020_01_03 == StrCell(<<50, 48, 50, 48, 45, 48, 49, 45, 48, 51>>)
Date_2021_07_15 == StrCell(<<50, 48, 50, 49, 45, 48, 55, 45, 49, 53>>)
Date_2020_02_31 == StrCell(<<50, 48, 50, 48, 45, 48, 50, 45, 51, 49>>)
Date_word == StrCell(<<110, 47, 97>>)

\* "36.5 N" "N 36.5" "-86.8 W" "17:30" "9930" "Alpha" "Zeta"
Lat_36_5_N == StrCell(<<51, 54, 46, 53, 32, 78>>)
Lat_N_36_5 == StrCell(<<78, 32, 51, 54, 46, 53>>)
Lon_86_8_W == StrCell(<<45, 56, 54, 46, 56, 32, 87>>)
Time_17_30 == StrCell(<<49, 55, 58, 51, 48>>)
Time_9930 == StrCell(<<57, 57, 51, 48>>)
Alpha == StrCell(<<65, 108, 112, 104, 97>>)
Zeta == StrCell(<<90, 101, 116, 97>>)

\* Rows whose raw timestamp, coordinate and time cells vary.  The cells of a
\* column are texts or empty, as read_csv gives them for a column that holds
\* a non-numeric text.
DeriveRows ==
    {Row(bd, ed, lat, t[1], t[2], Alpha, FloatCell(100, 0), IntCell(0), IntCell(0)) :
        bd \in {Date_2020_01_01, Date_2021_07_15, Date_2020_02_31, NaN},
        ed \in {Date_2020_01_03, NaN},
        lat \in {Lat_36_5_N, Lat_N_36_5, NaN},
        t \in {<<Lon_86_8_W, Time_17_30>>, <<Lon_86_8_W, NaN>>, <<NaN, Time_9930>>}}

\* Rows whose date, location, damage and casualties vary.
AggRow(bd, loc, dmg, dth, inj) ==
    Row(bd, bd, Lat_36_5_N, Lon_86_8_W, Time_17_30, loc, dmg, dth, inj)

FreeRows ==
    {AggRow(Date_2020_01_01, Alpha, FloatCell(100, 0), IntCell(0), IntCell(0)),
     AggRow(Date_2020_01_01, Zeta, FloatCell(100, 0), IntCell(0), IntCell(0)),
     AggRow(Date_2020_01_02, Alpha, FloatCell(100, 0), IntCell(1), IntCell(0)),
     AggRow(Date_2020_01_02, Zeta, FloatCell(0, 0), IntCell(0), IntCell(0)),
     AggRow(Date_2020_01_02, Alpha, FloatCell(0, 0), IntCell(0), IntCell(3)),
     AggRow(Date_2020_01_01, Alpha, NaN, IntCell(0), IntCell(0))}

\* Nine further locations "F1" .. "F9", one damaging event each, so that the
\* batch has more locations than a top-10 keeps.
FillerRows ==
    [i \in 1..9 |->
        AggRow(Date_2020_01_03, StrCell(<<70, 48 + i>>), FloatCell(1000 * i, 0),
               IntCell(0), IntCell(0))]

SeqsUpTo(S, lo, hi) == UNION {[1..m -> S] : m \in lo..hi}

GoodRow ==
    Row(Date_2020_01_01, Date_2020_01_03, Lat_36_5_N, Lon_86_8_W, Time_17_30,
        Zeta, FloatCell(100, 0), IntCell(0), IntCell(0))

Batches ==
    SeqsUpTo(DeriveRows, 1, MaxDerive)
    \cup {<<GoodRow, row>> : row \in DeriveRows}
    \cup SeqsUpTo(FreeRows, 1, MaxFree)
    \cup {free \o FillerRows : free \in SeqsUpTo(FreeRows, 0, MaxFree)}

(***************************************************************************)
(* The pipeline.                                                           *)
(***************************************************************************)
Init ==
    /\ pc = "parse_begin"
    /\ err = "none"
    /\ raw \in Batches
    /\ df = raw
    /\ geo_df = Empty /\ damage_df = Empty /\ impact_df = Empty
    /\ annual_counts = Empty /\ monthly_counts = Empty
    /\ top_locations = Empty /\ cumulative = Empty
    /\ deaths = Empty /\ injuries = Empty /\ hist_hours = Empty
    /\ location_damage = Empty /\ damage_by_year = Empty
    /\ figs = NoFigs
    /\ bound = {"df"}
    /\ arg = NaN /\ ret = NaN

subVars == <<geo_df, damage_df, impact_df>>
aggVars == <<annual_counts, monthly_counts, top_locations, cumulative,
             deaths, injuries, hist_hours, location_damage, damage_by_year>>
callVars == <<arg, ret>>

Raise(exception) ==
    /\ pc' = "raised"
    /\ err' = exception
    /\ UNCHANGED <<raw, df, subVars, aggVars, figs, bound, callVars>>

\* Only df changes, and the pipeline moves on to position next.
Assign_df(frame, next) ==
    /\ df' = frame
    /\ pc' = next
    /\ UNCHANGED <<err, raw, subVars, aggVars, figs, bound, callVars>>

\* df['BEGIN_DATE'] = pd.to_datetime(df['BEGIN_DATE'])
ParseBeginDate ==
    /\ pc = "parse_begin"
    /\ IF \E i \in 1..Len(df) : ~to_datetime(df[i].BEGIN_DATE).ok
       THEN Raise("ValueError")
       ELSE Assign_df(SetCol(df, "BEGIN_DATE",
                [i \in 1..Len(df) |-> to_datetime(df[i].BEGIN_DATE).val]),
                "parse_end")

\* df['END_DATE'] = pd.to_datetime(df['END_DATE'])
ParseEndDate ==
    /\ pc = "parse_end"
    /\ IF \E i \in 1..Len(df) : ~to_datetime(df[i].END_DATE).ok
       THEN Raise("ValueError")
       ELSE Assign_df(SetCol(df, "END_DATE",
                [i \in 1..Len(df) |-> to_datetime(df[i].END_DATE).val]),
                "derive")

\* .dt.year / .dt.month of a datetime column: integers, or float64 with nan
\* as soon as one timestamp of the column is NaT.
dt_component(frame, c, n) ==
    LET hasNaT == \E i \in 1..Len(frame) : pd_isna(frame[i][c])
    IN  [i \in 1..Len(frame) |->
            IF pd_isna(frame[i][c]) THEN NaN
            ELSE IF hasNaT THEN FloatCell(frame[i][c].v[n], 0)
            ELSE IntCell(frame[i][c].v[n])]

\* df['DURATION'] = ...; df['YEAR'] = ...; df['MONTH'] = ...
DeriveCalendar ==
    /\ pc = "derive"
    /\ LET d1 == SetCol(df, "DURATION",
                    [i \in 1..Len(df) |->
                        duration_hours(df[i].BEGIN_DATE, df[i].END_DATE)])
           d2 == SetCol(d1, "YEAR", dt_component(d1, "BEGIN_DATE", 1))
           d3 == SetCol(d2, "MONTH", dt_component(d2, "BEGIN_DATE", 2))
       IN  Assign_df(d3, "month_name")

\* df['MONTH_NAME'] = df['MONTH'].apply(lambda x: calendar.month_abbr[x]):
\* indexing month_abbr with a float (a float64 MONTH column) is a TypeError.
MonthName ==
    /\ pc = "month_name"
    /\ IF \E i \in 1..Len(df) : df[i].MONTH.kind # "int"
       THEN Raise("TypeError")
       ELSE Assign_df(SetCol(df, "MONTH_NAME",
                [i \in 1..Len(df) |-> StrCell(month_abbr[df[i].MONTH.v[1]])]),
                "clean")

\* df['BEGIN_LAT'] = df['BEGIN_LAT'].apply(clean_coordinates), and BEGIN_LON
CleanCoordinates ==
    /\ pc = "clean"
    /\ LET d1 == SetCol(df, "BEGIN_LAT",
                    [i \in 1..Len(df) |-> clean_coordinates(df[i].BEGIN_LAT)])
           d2 == SetCol(d1, "BEGIN_LON",
                    [i \in 1..Len(df) |-> clean_coordinates(d1[i].BEGIN_LON)])
       IN  Assign_df(d2, "subsets")

Geocoded(row) == ~pd_isna(row.BEGIN_LAT) /\ ~pd_isna(row.BEGIN_LON)
Damaging(row) == Positive(row.DAMAGE_PROPERTY_NUM)
Impactful(row) == Positive(row.DEATHS_DIRECT) \/ Positive(row.INJURIES_DIRECT)

\* geo_df, damage_df, impact_df: copies of the rows of df that satisfy the
\* mask, in input order, as they are now.
SubDataframes ==
    /\ pc = "subsets"
    /\ geo_df' = SelectSeq(df, Geocoded)
    /\ damage_df' = SelectSeq(df, Damaging)
    /\ impact_df' = SelectSeq(df, Impactful)
    /\ bound' = bound \cup {"geo_df", "damage_df", "impact_df"}
    /\ pc' = "begin_hour"
    /\ UNCHANGED <<err, raw, df, aggVars, figs, callVars>>

BeginHour_overwrites_time ==
    /\ pc = "begin_hour"
    /\ Assign_df(SetCol(SetCol(df, "BEGIN_HOUR",
            [i \in 1..Len(df) |-> convert_to_hour(df[i].BEGIN_TIME)]),
            "BEGIN_TIME", [i \in 1..Len(df) |-> convert_to_hour(df[i].BEGIN_TIME)]),
            "fig1")

\* df['BEGIN_HOUR'] = df['BEGIN_TIME'].apply(convert_to_hour)
BeginHour ==
    /\ pc = "begin_hour"
    /\ Assign_df(SetCol(df, "BEGIN_HOUR",
            [i \in 1..Len(df) |-> convert_to_hour(df[i].BEGIN_TIME)]), "fig1")

SetFig(name, kind) ==
    figs' = [f \in (DOMAIN figs) \cup {name} |-> IF f = name THEN kind ELSE figs[f]]

\* annual_counts = df['YEAR'].value_counts().sort_index(); fig1
Fig1 ==
    /\ pc = "fig1"
    /\ \E stable \in BOOLEAN :
           annual_counts' = sort_index(value_counts(Column(df, "YEAR"), stable))
    /\ SetFig("fig1", "chart")
    /\ bound' = bound \cup {"annual_counts", "fig1"}
    /\ pc' = "fig2"
    /\ UNCHANGED <<err, raw, df, subVars, monthly_counts, top_locations,
                   cumulative, deaths, injuries, hist_hours, location_damage,
                   damage_by_year, callVars>>

MonthLabels == [i \in 1..12 |-> StrCell(month_abbr[i])]

\* monthly_counts = df['MONTH_NAME'].value_counts().reindex([Jan..Dec]); fig2
Fig2 ==
    /\ pc = "fig2"
    /\ \E stable \in BOOLEAN :
           monthly_counts' =
               reindex(value_counts(Column(df, "MONTH_NAME"), stable), MonthLabels)
    /\ SetFig("fig2", "chart")
    /\ bound' = bound \cup {"monthly_counts", "fig2"}
    /\ pc' = "fig3"
    /\ UNCHANGED <<err, raw, df, subVars, annual_counts, top_locations,
                   cumulative, deaths, injuries, hist_hours, location_damage,
                   damage_by_year, callVars>>

ChartOrPlaceholder_always_chart(frame) == "chart"

\* A chart of a sub-dataframe, or the placeholder figure when it is empty.
ChartOrPlaceholder(frame) == IF frame # <<>> THEN "chart" ELSE "placeholder"

\* fig3: log property damage over time
Fig3 ==
    /\ pc = "fig3"
    /\ SetFig("fig3", ChartOrPlaceholder(damage_df))
    /\ bound' = bound \cup {"fig3"}
    /\ pc' = "fig4"
    /\ UNCHANGED <<err, raw, df, subVars, aggVars, callVars>>

\* top_locations = df['BEGIN_LOCATION'].value_counts().head(10); fig4
Fig4 ==
    /\ pc = "fig4"
    /\ \E stable \in BOOLEAN :
           top_locations' =
               head(value_counts(Column(df, "BEGIN_LOCATION"), stable), TopN)
    /\ SetFig("fig4", "chart")
    /\ bound' = bound \cup {"top_locations", "fig4"}
    /\ pc' = "fig5"
    /\ UNCHANGED <<err, raw, df, subVars, annual_counts, monthly_counts,
                   cumulative, deaths, injuries, hist_hours, location_damage,
                   damage_by_year, callVars>>

\* fig5: box plot of DURATION; fig6: damage against duration
Fig5_6 ==
    /\ pc = "fig5"
    /\ figs' = [f \in (DOMAIN figs) \cup {"fig5", "fig6"} |->
                   CASE f = "fig5" -> "chart"
                     [] f = "fig6" -> ChartOrPlaceholder(damage_df)
                     [] OTHER -> figs[f]]
    /\ bound' = bound \cup {"fig5", "fig6"}
    /\ pc' = "fig7"
    /\ UNCHANGED <<err, raw, df, subVars, aggVars, callVars>>

\* cumulative = df.sort_values('BEGIN_DATE').groupby('BEGIN_DATE').size()
\*                .cumsum(); fig7
Fig7 ==
    /\ pc = "fig7"
    /\ cumulative' =
           cumsum(groupby_size(sort_values_frame(df, "BEGIN_DATE"), "BEGIN_DATE"))
    /\ SetFig("fig7", "chart")
    /\ bound' = bound \cup {"cumulative", "fig7"}
    /\ pc' = "fig8"
    /\ UNCHANGED <<err, raw, df, subVars, annual_counts, monthly_counts,
                   top_locations, deaths, injuries, hist_hours, location_damage,
                   damage_by_year, callVars>>

\* fig8: deaths and injuries per year of impact_df, or the placeholder
Fig8 ==
    /\ pc = "fig8"
    /\ IF impact_df # <<>>
       THEN /\ deaths' = groupby_sum(impact_df, "YEAR", "DEATHS_DIRECT")
            /\ injuries' = groupby_sum(impact_df, "YEAR", "INJURIES_DIRECT")
            /\ bound' = bound \cup {"deaths", "injuries", "fig8"}
       ELSE /\ UNCHANGED <<deaths, injuries>>
            /\ bound' = bound \cup {"fig8"}
    /\ SetFig("fig8", ChartOrPlaceholder(impact_df))
    /\ pc' = "fig9"
    /\ UNCHANGED <<err, raw, df, subVars, annual_counts, monthly_counts,
                   top_locations, cumulative, hist_hours, location_damage,
                   damage_by_year, callVars>>

HasHour(row) == ~pd_isna(row.BEGIN_HOUR)

\* fig9 = px.histogram(df.dropna(subset=['BEGIN_HOUR']), x='BEGIN_HOUR',
\*                     nbins=24): hist_hours is the data handed to it.
Fig9 ==
    /\ pc = "fig9"
    /\ hist_hours' = Column(SelectSeq(df, HasHour), "BEGIN_HOUR")
    /\ SetFig("fig9", "chart")
    /\ bound' = bound \cup {"fig9"}
    /\ pc' = "fig10"
    /\ UNCHANGED <<err, raw, df, subVars, annual_counts, monthly_counts,
                   top_locations, cumulative, deaths, injuries, location_damage,
                   damage_by_year, callVars>>

\* location_damage = damage_df.groupby('BEGIN_LOCATION')
\*                     ['DAMAGE_PROPERTY_NUM'].sum().nlargest(10); fig10
Fig10 ==
    /\ pc = "fig10"
    /\ IF damage_df # <<>>
       THEN /\ \E stable \in BOOLEAN :
                   location_damage' =
                       nlargest(groupby_sum(damage_df, "BEGIN_LOCATION",
                                            "DAMAGE_PROPERTY_NUM"), TopN, stable)
            /\ bound' = bound \cup {"location_damage", "fig10"}
       ELSE /\ UNCHANGED location_damage
            /\ bound' = bound \cup {"fig10"}
    /\ SetFig("fig10", ChartOrPlaceholder(damage_df))
    /\ pc' = "fig11"
    /\ UNCHANGED <<err, raw, df, subVars, annual_counts, monthly_counts,
                   top_locations, cumulative, deaths, injuries, hist_hours,
                   damage_by_year, callVars>>

\* damage_by_year = damage_df.groupby('YEAR')['DAMAGE_PROPERTY_NUM'].sum()
\*                    .reset_index(); fig11
Fig11 ==
    /\ pc = "fig11"
    /\ IF damage_df # <<>>
       THEN /\ damage_by_year' = groupby_sum(damage_df, "YEAR", "DAMAGE_PROPERTY_NUM")
            /\ bound' = bound \cup {"damage_by_year", "fig11"}
       ELSE /\ UNCHANGED damage_by_year
            /\ bound' = bound \cup {"fig11"}
    /\ SetFig("fig11", ChartOrPlaceholder(damage_df))
    /\ pc' = "done"
    /\ UNCHANGED <<err, raw, df, subVars, annual_counts, monthly_counts,
                   top_locations, cumulative, deaths, injuries, hist_hours,
                   location_damage, callVars>>

Next ==
    \/ ParseBeginDate
    \/ ParseEndDate
    \/ DeriveCalendar
    \/ MonthName
    \/ CleanCoordinates
    \/ SubDataframes
    \/ BeginHour
    \/ Fig1
    \/ Fig2
    \/ Fig3
    \/ Fig4
    \/ Fig5_6
    \/ Fig7
    \/ Fig8
    \/ Fig9
    \/ Fig10
    \/ Fig11

Spec == Init /\ [][Next]_vars

(***************************************************************************)
(* Claims about the cleaning functions.                                    *)
(***************************************************************************)
DigitsOf(c) == SelectSeq(PyStr(c), IsDigit)
DigitValue(c) == c - 48

\* C2: convert_to_hour removes the non-digit characters of the text form of
\* its argument and returns the value of the first digit when 3 digits
\* remain, the value of the first two digits when 4 remain, and the absent
\* value for any other number of digits; "930" -> 9, "0930" -> 9,
\* "1730" -> 17, "93" -> absent, "12345" -> absent.
C2_HourRule ==
    pc = "return" =>
        /\ LET d == DigitsOf(arg)
           IN  ret = CASE Len(d) = 3 -> IntCell(DigitValue(d[1]))
                       [] Len(d) = 4 -> IntCell(10 * DigitValue(d[1]) + DigitValue(d[2]))
                       [] OTHER -> NaN
        /\ arg = StrCell(<<57, 51, 48>>) => ret = IntCell(9)
        /\ arg = StrCell(<<48, 57, 51, 48>>) => ret = IntCell(9)
        /\ arg = StrCell(<<49, 55, 51, 48>>) => ret = IntCell(17)
        /\ arg = StrCell(<<57, 51>>) => ret = NaN
        /\ arg = StrCell(<<49, 50, 51, 52, 53>>) => ret = NaN

C2_Witness ==
    /\ pc = "return"
    /\ arg = StrCell(<<49, 55, 58, 51, 48>>)
    /\ ret = IntCell(17)

\* C3: every non-absent hour returned by convert_to_hour is an hour of day:
\* in 0..9 when the cleaned text has 3 digits, in 0..23 when it has 4.
C3_ValidHourOfDay ==
    (pc = "return" /\ ret.kind = "int") =>
        /\ Len(DigitsOf(arg)) = 3 => ret.v[1] \in 0..9
        /\ Len(DigitsOf(arg)) = 4 => ret.v[1] \in 0..23
        /\ ret.v[1] \in 0..23

HasSpace(t) == \E i \in 1..Len(t) : t[i] = 32
BeforeFirstSpace(t) ==
    LET i == CHOOSE j \in 1..Len(t) : t[j] = 32 /\ \A h \in 1..(j - 1) : t[h] # 32
    IN  SubSeq(t, 1, i - 1)
ParseOrAbsent(t) == IF PyFloat(t).ok THEN PyFloat(t).val ELSE NaN

\* C4: clean_coordinates returns absent for an absent value; for a text with
\* a space, the numeric parse of the part before the first space, or absent
\* when that part is not numeric; for a text without a space, the numeric
\* parse of the whole text, or absent when it is not numeric;
\* "36.5 N" -> 36.5, "N 36.5" -> absent.
C4_CleanCoordinates ==
    pc = "return" =>
        /\ arg = NaN => ret = NaN
        /\ (arg # NaN /\ HasSpace(PyStr(arg))) =>
               ret = ParseOrAbsent(BeforeFirstSpace(PyStr(arg)))
        /\ (arg # NaN /\ ~HasSpace(PyStr(arg))) =>
               ret = ParseOrAbsent(PyStr(arg))
        /\ arg = StrCell(<<51, 54, 46, 53, 32, 78>>) => ret = FloatCell(365, 1)
        /\ arg = StrCell(<<78, 32, 51, 54, 46, 53>>) => ret = NaN

C4_Witness ==
    /\ pc = "return"
    /\ arg = StrCell(<<45, 56, 54, 46, 56, 48, 32, 87>>)
    /\ ret = FloatCell(-868, 1)

(***************************************************************************)
(* Claims about the pipeline.                                              *)
(***************************************************************************)
Positions ==
    <<"parse_begin", "parse_end", "derive", "month_name", "clean", "subsets",
      "begin_hour", "fig1", "fig2", "fig3", "fig4", "fig5", "fig7", "fig8",
      "fig9", "fig10", "fig11", "done">>
PositionOf(p) == CHOOSE i \in 1..Len(Positions) : Positions[i] = p
\* The pipeline has not raised and every statement before position p has run.
Reached(p) == pc # "raised" /\ PositionOf(pc) >= PositionOf(p)

DerivedColumns == {"DURATION", "YEAR", "MONTH", "MONTH_NAME", "BEGIN_HOUR"}
Malformed(c) == ~pd_isna(c) /\ ~to_datetime(c).ok
MalformedCoordinate(c) ==
    /\ ~pd_isna(c)
    /\ ~PyFloat(IF HasSpace(PyStr(c)) THEN BeforeFirstSpace(PyStr(c)) ELSE PyStr(c)).ok

\* C1: derivation never raises, and once it has run, a record whose begin or
\* end timestamp, coordinate or time cell is absent or malformed has the
\* absent value in the derived fields that depend on it.
C1_DeriverTotal ==
    /\ err = "none"
    /\ pc # "raised"
    /\ Reached("fig1") =>
         \A i \in 1..Len(df) :
            /\ (pd_isna(raw[i].BEGIN_DATE) \/ Malformed(raw[i].BEGIN_DATE)) =>
                   /\ pd_isna(df[i].YEAR) /\ pd_isna(df[i].MONTH)
                   /\ pd_isna(df[i].MONTH_NAME) /\ pd_isna(df[i].DURATION)
            /\ (pd_isna(raw[i].END_DATE) \/ Malformed(raw[i].END_DATE)) =>
                   pd_isna(df[i].DURATION)
            /\ (pd_isna(raw[i].BEGIN_LAT) \/ MalformedCoordinate(raw[i].BEGIN_LAT))
                   => pd_isna(df[i].BEGIN_LAT)
            /\ (pd_isna(raw[i].BEGIN_LON) \/ MalformedCoordinate(raw[i].BEGIN_LON))
                   => pd_isna(df[i].BEGIN_LON)
            /\ pd_isna(raw[i].BEGIN_TIME) => pd_isna(df[i].BEGIN_HOUR)

IsNumber(c) == c.kind \in {"int", "float"}
RowsInMonth(m) ==
    Cardinality({i \in 1..Len(df) :
                    df[i].BEGIN_DATE.kind = "ts" /\ df[i].BEGIN_DATE.v[2] = m})

\* C6: monthly_counts has exactly the 12 entries Jan..Dec in calendar order,
\* and the value of each is a number: the number of records of that month,
\* 0 for a month without events.
C6_MonthlyCounts ==
    "monthly_counts" \in bound =>
        /\ Len(monthly_counts) = 12
        /\ \A m \in 1..12 :
              /\ monthly_counts[m].key = StrCell(month_abbr[m])
              /\ IsNumber(monthly_counts[m].value)
              /\ NumberOf(monthly_counts[m].value) = RowsInMonth(m)

PresentDates == {df[i].BEGIN_DATE : i \in {j \in 1..Len(df) : df[j].BEGIN_DATE.kind = "ts"}}
RowsUpTo(t) ==
    Cardinality({i \in 1..Len(df) :
                    /\ df[i].BEGIN_DATE.kind = "ts"
                    /\ DayNumber(df[i].BEGIN_DATE.v[1], df[i].BEGIN_DATE.v[2],
                                 df[i].BEGIN_DATE.v[3])
                         <= DayNumber(t.v[1], t.v[2], t.v[3])})

\* C8: cumulative has one entry per distinct begin timestamp, in ascending
\* order; the value of an entry is the number of records that begin at or
\* before its timestamp, so the values increase strictly and the last one is
\* the number of records with a begin timestamp; the records dated
\* [2020-01-01, 2020-01-01, 2020-01-02] give {2020-01-01: 2, 2020-01-02: 3}.
C8_Cumulative ==
    "cumulative" \in bound =>
        /\ {cumulative[i].key : i \in 1..Len(cumulative)} = PresentDates
        /\ Len(cumulative) = Cardinality(PresentDates)
        /\ \A i \in 1..Len(cumulative) : cumulative[i].value = RowsUpTo(cumulative[i].key)
        /\ \A i \in 1..(Len(cumulative) - 1) :
              /\ DayNumber(cumulative[i].key.v[1], cumulative[i].key.v[2],
                           cumulative[i].key.v[3])
                   < DayNumber(cumulative[i + 1].key.v[1], cumulative[i + 1].key.v[2],
                               cumulative[i + 1].key.v[3])
              /\ cumulative[i].value < cumulative[i + 1].value
        /\ cumulative # <<>> =>
              cumulative[Len(cumulative)].value
                  = Cardinality({i \in 1..Len(df) : df[i].BEGIN_DATE.kind = "ts"})
        /\ Column(df, "BEGIN_DATE")
              = <<Timestamp(2020, 1, 1), Timestamp(2020, 1, 1), Timestamp(2020, 1, 2)>>
           => cumulative = << [key |-> Timestamp(2020, 1, 1), value |-> 2],
                              [key |-> Timestamp(2020, 1, 2), value |-> 3] >>

C8_Witness ==
    /\ "cumulative" \in bound
    /\ Column(df, "BEGIN_DATE")
          = <<Timestamp(2020, 1, 1), Timestamp(2020, 1, 1), Timestamp(2020, 1, 2)>>
    /\ cumulative = << [key |-> Timestamp(2020, 1, 1), value |-> 2],
                       [key |-> Timestamp(2020, 1, 2), value |-> 3] >>

Locations == Column(df, "BEGIN_LOCATION")
DamagingLabels == PresentKeys(Column(damage_df, "BEGIN_LOCATION"))
DamageSum(l) == SumWhere(damage_df, "BEGIN_LOCATION", l, "DAMAGE_PROPERTY_NUM")
LocationCount(l) == CountOf(Locations, l)
\* The position at which label l first appears in the input batch.
FirstIndex(l) == CHOOSE i \in 1..Len(df) : df[i].BEGIN_LOCATION = l
                     /\ \A j \in 1..(i - 1) : df[j].BEGIN_LOCATION # l
IsDamaging(l) == l \in DamagingLabels

\* The top-10 a sort that keeps tied locations in order of first appearance
\* would give.
DamageByFirstAppearance ==
    LET keys == SelectSeq(FirstAppearance(Locations), IsDamaging)
    IN  head(SortDescending(
                [i \in 1..Len(keys) |-> [key |-> keys[i], value |-> DamageSum(keys[i])]],
                TRUE), TopN)
CountByFirstAppearance ==
    LET keys == FirstAppearance(Locations)
    IN  head(SortDescending(
                [i \in 1..Len(keys) |-> [key |-> keys[i], value |-> LocationCount(keys[i])]],
                TRUE), TopN)

\* C9 as stated: in both top-10-by-location results, locations of equal sum
\* (or count) appear in order of first appearance in the input batch, and of
\* a tie across the 10th position the location that appears first is kept.
\* The order of equal counts is left open by pandas' default sort, so the
\* statement is read where it is decided: in a run whose count result does
\* follow first appearance, the damage result follows it too.
C9_TiesByFirstAppearance ==
    ("location_damage" \in bound /\ top_locations = CountByFirstAppearance)
        => location_damage = DamageByFirstAppearance

Kept(series) == {series[i].key : i \in 1..Len(series)}
\* series lists min(10, |labels|) distinct labels with their values, in
\* descending order of value, and drops no label of a larger value than one
\* it keeps.
IsTopN(series, labels, Value(_)) ==
    /\ Len(series) = (IF Cardinality(labels) < TopN THEN Cardinality(labels) ELSE TopN)
    /\ Cardinality(Kept(series)) = Len(series)
    /\ \A i \in 1..Len(series) :
          series[i].key \in labels /\ series[i].value = Value(series[i].key)
    /\ \A i \in 1..Len(series) : \A j \in (i + 1)..Len(series) :
          series[i].value >= series[j].value
    /\ \A l \in labels \ Kept(series) : \A i \in 1..Len(series) :
          Value(l) <= series[i].value

\* C9 as amended: both results list the locations by descending sum (or
\* count) and keep no location of a smaller value than one they drop.  With
\* more than 10 damaging locations, locations of equal damage appear in
\* ascending order of their label, and of a tie across the 10th position the
\* location with the smaller label is kept, wherever the two first appear in
\* the input.
C9_Amended ==
    /\ "location_damage" \in bound =>
          /\ IsTopN(location_damage, DamagingLabels, DamageSum)
          /\ Cardinality(DamagingLabels) > TopN =>
                /\ \A i \in 1..Len(location_damage) :
                      \A j \in (i + 1)..Len(location_damage) :
                         location_damage[i].value = location_damage[j].value
                            => CellLess(location_damage[i].key, location_damage[j].key)
                /\ \A l \in DamagingLabels \ Kept(location_damage) :
                      \A i \in 1..Len(location_damage) :
                         location_damage[i].value = DamageSum(l)
                            => CellLess(location_damage[i].key, l)
    /\ "top_locations" \in bound =>
          IsTopN(top_locations, PresentKeys(Locations), LocationCount)

C9_Witness ==
    /\ "location_damage" \in bound
    /\ Cardinality(DamagingLabels) > TopN
    /\ Zeta \in DamagingLabels \ Kept(location_damage)
    /\ location_damage[TopN].key = Alpha
    /\ location_damage[TopN].value = DamageSum(Zeta)
    /\ FirstIndex(Zeta) < FirstIndex(Alpha)

\* C10: when the three sub-dataframes are created every derived attribute,
\* begin hour included, has been computed, so each of their records carries
\* all of them; and the full batch is not changed afterwards, so each
\* sub-dataframe stays the selection of its records from the full batch.
C10_SegmentsFromFullyDerived ==
    "geo_df" \in bound =>
        /\ \A frame \in {geo_df, damage_df, impact_df} :
              \A i \in 1..Len(frame) : DerivedColumns \subseteq DOMAIN frame[i]
        /\ geo_df = SelectSeq(df, Geocoded)
        /\ damage_df = SelectSeq(df, Damaging)
        /\ impact_df = SelectSeq(df, Impactful)

=============================================================================
